---- MODULE Spec2Model ----
(***************************************************************************)
(* A model of thumber (github.com/abdusco/thumber): the timing plan, the   *)
(* bounded pool of concurrent ffmpeg extractions, the contact sheet        *)
(* compositor, the option parsers and the command line run.                *)
(*                                                                         *)
(* The package source under src/ holds several revisions of thumber.go;    *)
(* the model follows the latest one, src/unnamed/part_003 lines 313-670.   *)
(*                                                                         *)
(* time.Duration is an integer count of ticks.  In the code one tick is a  *)
(* nanosecond (time.Second = 10^9); the model keeps the integer arithmetic *)
(* (truncating division included) and scales the clock to TicksPerSecond   *)
(* ticks per second so that the values fit the model checker's integers.   *)
(***************************************************************************)
EXTENDS Integers, Sequences, FiniteSets, TLC

VARIABLES
    opts,        \* the ThumbOptions passed to Generate / MakeThumbnails
    video,       \* the environment: what ffprobe/ffmpeg answer for the file
    ctxDone,     \* the caller's context has been cancelled
    pc,          \* position of the calling goroutine
    err,         \* the error MakeThumbnails returns ("nil" = none)
    probed,      \* number of ffprobe subprocesses started
    start,       \* local start
    duration,    \* local duration (probed duration, then the window)
    totalTiles,  \* local totalTiles
    interval,    \* local interval
    i,           \* loop variable of the submission loop
    workers,     \* worker goroutines the pool has spawned (limiter tokens)
    idle,        \* workers blocked receiving from the task channel
    running,     \* task index -> "proc" (ffmpeg in flight) | "nostart"
    calls,       \* calls[k+1]: calls of extractThumbnail made for sample k
    procs,       \* sample indices for which an ffmpeg process was started
    results,     \* the pool's result aggregator, in completion order
    errs,        \* the pool's collected errors, in completion order
    thumbnails,  \* the slice MakeThumbnails returns
    genErr,      \* the error Generate returns ("nil" = none)
    si,          \* loop variable of makeContactSheet
    canvas,      \* tiles pasted so far: records [i, x, y, label]
    sheet,       \* the image Generate returns
    hex,         \* argument of ParseColor
    colorRes,    \* result of ParseColor
    dur,         \* receiver of Duration.Duration
    durRes,      \* result of Duration.Duration
    args,        \* the cliArgs of a command line run (NoArgs: a library call)
    file,        \* the output file: "absent", "created" (empty) or "written"
    runErr       \* the error cliArgs.Run returns ("nil" = none)

vars == <<opts, video, ctxDone, pc, err, probed, start, duration, totalTiles,
          interval, i, workers, idle, running, calls, procs, results, errs,
          thumbnails, genErr, si, canvas, sheet, hex, colorRes, dur, durRes,
          args, file, runErr>>

planVars == <<start, duration, totalTiles, interval>>
poolVars == <<i, workers, idle, running, calls, procs, results, errs>>
sheetVars == <<si, canvas, sheet>>
colorVars == <<hex, colorRes>>
cliVars == <<dur, durRes, args, file, runErr>>

(***************************************************************************)
(* Bounds of the model.                                                    *)
(***************************************************************************)
TicksPerSecond == 2   \* clock resolution of the model
MaxTiles == 5         \* largest tile count of the pool specification
PlanTiles == 2        \* largest tile count of the planner specification
MaxChannels == 4      \* most two-character groups in a colour string
SheetTiles == 7       \* most tiles of the compositor specification
MaxColumns == 3       \* most columns of the compositor specification
MaxPadding == 2       \* widest padding of the compositor specification
MaxParts == 3         \* most ":"-separated segments of a duration string

(***************************************************************************)
(* Program constants.                                                      *)
(***************************************************************************)
MaxGoroutines == 4    \* WithMaxGoroutines(4)

Second == TicksPerSecond

\* A nil image.Image.
NilImage == [kind |-> "nil"]

\* No command line: MakeThumbnails or Generate is called as a library.
NoArgs == [kind |-> "none"]

\* Go's integer division truncates toward zero (b # 0).
GoDiv(a, b) ==
    LET abs(x) == IF x < 0 THEN -x ELSE x
        q == abs(a) \div abs(b)
    IN  IF (a < 0) = (b < 0) THEN q ELSE -q

\* ThumbOptions.Validate: "nil" or the error it returns.
Validate(o) ==
    IF o.From # 0 /\ o.To # 0 /\ o.From > o.To
    THEN "starting point cannot be after ending point"
    ELSE IF o.Interval # 0 /\ o.TileCount # 0
         THEN "interval and tile count cannot be set together"
         ELSE "nil"

\* readDuration: ffprobe prints the duration in seconds as a decimal number
\* (video.milli thousandths); strconv.ParseFloat reads it, the conversion
\* time.Duration(seconds) truncates the float to an integer, and the result
\* is that many whole seconds.
readDuration(v) == Second * (v.milli \div 1000)


(***************************************************************************)
(* The timing plan, MakeThumbnails lines 548-566 and 585.                  *)
(***************************************************************************)
\* duration = end - start, with end = opts.To when set, else the probed one.
Window(o, d) == (IF o.To # 0 THEN o.To ELSE d) - o.From

\* The guard of lines 555 and 561.
IntervalTooLarge(o, w) == o.Interval > w

\* totalTiles of lines 559-565 (o.Interval # 0 where it divides).
TotalTiles(o, w) ==
    IF o.Interval # 0 THEN GoDiv(w, o.Interval) ELSE o.TileCount

\* Mutant of Timestamp: the samples are taken at the end of their spacing.
TimestampNext(s, k, iv) == s + (k + 1) * iv

\* Mutant of TileInterval: the requested interval is kept as the spacing
\* instead of being recomputed from the window.
TileIntervalKept(w, n) == IF opts.Interval # 0 THEN opts.Interval ELSE GoDiv(w, n)

\* interval := duration / time.Duration(totalTiles), for n # 0.
TileInterval(w, n) == GoDiv(w, n)

\* t := start + time.Duration(i)*interval
Timestamp(s, k, iv) == s + k * iv

(***************************************************************************)
(* The values the pool carries.                                            *)
(***************************************************************************)
\* indexedThumb{Thumbnail: th, Index: i} of a successful extraction.
IndexedThumb(k, t) == [Index |-> k, Timestamp |-> t, Image |-> "frame"]

\* indexedThumb{}: what a failed task returns beside its error.
ZeroThumb == [Index |-> 0, Timestamp |-> 0, Image |-> "nil"]

\* Mutant of SortByIndex: the results are left in completion order.
SortByIndexSkipped(s) == s

\* slices.SortFunc(results, a.Index < b.Index): a comparison sort; the
\* element at place j is the one that j - 1 elements come before.  Equal
\* indices, which the sort may leave in either order, occur only among the
\* results of failed tasks, and those are never sorted (line 597 returns).
SortByIndex(s) ==
    LET before(l, m) ==
            s[l].Index < s[m].Index \/ (s[l].Index = s[m].Index /\ l < m)
        rank(m) == Cardinality({l \in 1..Len(s) : before(l, m)}) + 1
    IN  [j \in 1..Len(s) |-> s[CHOOSE m \in 1..Len(s) : rank(m) = j]]

\* thumbnails = append(thumbnails, r.Thumbnail) for each result.
Thumbnails(rs) ==
    [j \in 1..Len(rs) |-> [Timestamp |-> rs[j].Timestamp, Image |-> rs[j].Image]]

\* Mutant of PoolError: task errors are dropped, as a pool that only logs
\* them would do.
PoolErrorDropped(es) == "nil"

\* The error of p.Wait(), lines 596-599: the join of every task's error,
\* nil when no task failed.
PoolError(es) == IF es # <<>> THEN "pool" ELSE "nil"

\* errors.Is(err, context.Canceled) on the error MakeThumbnails returns: the
\* joined pool error holds it only if some task's command was refused by
\* exec.Cmd.Start; a killed or failed ffmpeg gives an *exec.ExitError.
IsCancelled(e, es) ==
    \/ e = "probe: context canceled"
    \/ e = "pool" /\ \E j \in 1..Len(es) : es[j] = "context canceled"

(***************************************************************************)
(* MakeThumbnails, up to the pool.                                         *)
(***************************************************************************)
Return(e) ==
    /\ err' = e
    /\ thumbnails' = <<>>
    /\ pc' = "returned"

\* opts.Validate(), lines 535-537.
MTValidate ==
    /\ pc = "start"
    /\ IF Validate(opts) # "nil"
       THEN Return("invalid options")
       ELSE pc' = "check" /\ UNCHANGED <<err, thumbnails>>
    /\ UNCHANGED <<opts, video, ctxDone, probed, planVars, poolVars, genErr,
                   sheetVars, colorVars, cliVars>>

\* checkFfmpegInstalled(), lines 539-541.
MTCheckInstalled ==
    /\ pc = "check"
    /\ IF video.kind = "missing"
       THEN Return("ffmpeg not installed")
       ELSE pc' = "probe" /\ UNCHANGED <<err, thumbnails>>
    /\ UNCHANGED <<opts, video, ctxDone, probed, planVars, poolVars, genErr,
                   sheetVars, colorVars, cliVars>>

\* readDuration(ctx, videoPath), lines 543-546.  exec.Cmd.Start refuses to
\* start the command when ctx is already done.
MTReadDuration ==
    /\ pc = "probe"
    /\ IF ctxDone
       THEN Return("probe: context canceled") /\ UNCHANGED <<probed, duration>>
       ELSE /\ probed' = probed + 1
            /\ IF video.kind = "fail"
               THEN Return("failed to read video duration") /\ UNCHANGED duration
               ELSE /\ duration' = readDuration(video)
                    /\ pc' = "plan"
                    /\ UNCHANGED <<err, thumbnails>>
    /\ UNCHANGED <<opts, video, ctxDone, start, totalTiles, interval, poolVars,
                   genErr, sheetVars, colorVars, cliVars>>

\* Lines 548-580: the window, the tile count, the spacing, the new pool.
\* A zero totalTiles makes line 566 an integer division by zero, which
\* panics.
MTPlan ==
    /\ pc = "plan"
    /\ LET w == Window(opts, duration)
       IN  /\ start' = opts.From
           /\ duration' = w
           /\ IF IntervalTooLarge(opts, w)
              THEN Return("interval is larger than available video duration")
                   /\ UNCHANGED <<totalTiles, interval, calls>>
              ELSE LET n == TotalTiles(opts, w)
                   IN  /\ totalTiles' = n
                       /\ UNCHANGED <<err, thumbnails>>
                       /\ IF n = 0
                          THEN pc' = "panic" /\ UNCHANGED <<interval, calls>>
                          ELSE /\ interval' = TileInterval(w, n)
                               /\ calls' = [k \in 1..n |-> 0]
                               /\ pc' = "submit"
    /\ UNCHANGED <<opts, video, ctxDone, probed, i, workers, idle, running,
                   procs, results, errs, genErr, sheetVars, colorVars, cliVars>>

(***************************************************************************)
(* The pool: conc's pool.NewWithResults().WithContext(ctx).                *)
(* WithMaxGoroutines(4).WithCollectErrored(), as used in lines 577-599.    *)
(* Pool.Go either takes a limiter token, spawns a worker and then sends    *)
(* the task on the unbuffered task channel, or sends the task to a worker  *)
(* that is already waiting.  A worker runs the tasks it receives one       *)
(* after another.  The context pool hands its context to every task and    *)
(* cancels nothing on a task's error.                                      *)
(***************************************************************************)
\* Mutant of LimiterFree: a pool without WithMaxGoroutines.
LimiterUnbounded(w) == TRUE

\* p.limiter <- struct{}{} can proceed: fewer than the maximum of workers
\* have been spawned.
LimiterFree(w) == w < MaxGoroutines

\* Mutant of LoopDone: the loop stops submitting at the first failure.
LoopDoneOnError(k, n, es) == k >= n \/ es # <<>>

\* The condition that ends the loop of line 582: for i := 0; i < totalTiles.
LoopDone(k, n, es) == k >= n

\* Mutant of WorkerWaits: a worker ends after its first task and keeps its
\* limiter token.
WorkerGone(n) == n

\* A worker that has finished a task receives from the task channel again:
\* the count of waiting workers after one more waits.
WorkerWaits(n) == n + 1

\* A worker receives task k and calls extractThumbnail (lines 584-587);
\* cmd.Output starts ffmpeg unless ctx is already done.
StartTask(k) ==
    /\ idle > 0
    /\ idle' = idle - 1
    /\ calls' = [calls EXCEPT ![k + 1] = @ + 1]
    /\ IF ctxDone
       THEN running' = (k :> "nostart") @@ running /\ UNCHANGED procs
       ELSE running' = (k :> "proc") @@ running /\ procs' = procs \cup {k}

\* p.Go, limiter case: a token is free, so a new worker is spawned; the
\* caller then blocks sending the task.
MTGoSpawn ==
    /\ pc = "submit"
    /\ ~LoopDone(i, totalTiles, errs)
    /\ LimiterFree(workers)
    /\ workers' = workers + 1
    /\ idle' = idle + 1
    /\ pc' = "send"
    /\ UNCHANGED <<opts, video, ctxDone, err, probed, planVars, i, running,
                   calls, procs, results, errs, thumbnails, genErr, sheetVars,
                   colorVars, cliVars>>

\* p.Go: the task is received by a waiting worker (either select case's
\* send on p.tasks), and the loop moves on.
MTGoSend ==
    /\ pc \in {"submit", "send"}
    /\ ~LoopDone(i, totalTiles, errs)
    /\ StartTask(i)
    /\ i' = i + 1
    /\ pc' = "submit"
    /\ UNCHANGED <<opts, video, ctxDone, err, probed, planVars, workers,
                   results, errs, thumbnails, genErr, sheetVars, colorVars, cliVars>>

\* The for loop of line 582 ends.
MTLoopEnd ==
    /\ pc = "submit"
    /\ LoopDone(i, totalTiles, errs)
    /\ pc' = "wait"
    /\ UNCHANGED <<opts, video, ctxDone, err, probed, planVars, poolVars,
                   thumbnails, genErr, sheetVars, colorVars, cliVars>>

\* Task k returns (lines 588-592): the pool appends its result (also of a
\* failed task: WithCollectErrored) and its error, and the worker waits for
\* the next task.  An ffmpeg in flight ends well or not (a failure, a kill
\* after cancellation, an undecodable frame: an *exec.ExitError or a decode
\* error); once ctx is done, cmd.Wait may also report ctx.Err() for a
\* process that had already exited when it was signalled.
TaskDone(k) ==
    /\ k \in DOMAIN running
    /\ \E out \in {"frame", "failed to run ffmpeg", "context canceled"} :
          /\ running[k] = "nostart" => out = "context canceled"
          /\ (running[k] = "proc" /\ ~ctxDone) => out # "context canceled"
          /\ IF out = "frame"
             THEN /\ results' = Append(results,
                                   IndexedThumb(k, Timestamp(start, k, interval)))
                  /\ UNCHANGED errs
             ELSE /\ results' = Append(results, ZeroThumb)
                  /\ errs' = Append(errs, out)
    /\ running' = [x \in DOMAIN running \ {k} |-> running[x]]
    /\ idle' = WorkerWaits(idle)
    /\ UNCHANGED <<opts, video, ctxDone, pc, err, probed, planVars, i, workers,
                   calls, procs, thumbnails, genErr, sheetVars, colorVars, cliVars>>

MTTaskDone == \E k \in DOMAIN running : TaskDone(k)

\* p.Wait() and lines 597-610: the task channel is closed, every worker
\* has ended; any collected error fails the call, else the results are
\* sorted by index and stripped.
MTWait ==
    /\ pc = "wait"
    /\ DOMAIN running = {}
    /\ IF PoolError(errs) # "nil"
       THEN Return(PoolError(errs))
       ELSE /\ thumbnails' = Thumbnails(SortByIndex(results))
            /\ err' = "nil"
            /\ pc' = "returned"
    /\ UNCHANGED <<opts, video, ctxDone, probed, planVars, poolVars, genErr,
                   sheetVars, colorVars, cliVars>>

\* The caller cancels ctx while MakeThumbnails runs (cliArgs.Run passes
\* context.Background(), which is never cancelled).
Cancel ==
    /\ ~ctxDone
    /\ args = NoArgs
    /\ pc \in {"start", "check", "probe", "plan", "submit", "send", "wait"}
    /\ ctxDone' = TRUE
    /\ UNCHANGED <<opts, video, pc, err, probed, planVars, poolVars,
                   thumbnails, genErr, sheetVars, colorVars, cliVars>>

(***************************************************************************)
(* Generate and makeContactSheet, lines 622-670.                           *)
(***************************************************************************)
\* Mutant of Rows: the quotient is rounded down.
RowsFloor(count, columns) == count \div columns

\* rows := int(math.Ceil(float64(len(thumbs)) / float64(opts.TileColumns)))
Rows(count, columns) == (count + columns - 1) \div columns

\* w and h of lines 644-645.
CanvasWidth(o, tileWidth) ==
    tileWidth * o.TileColumns + (o.TileColumns + 1) * o.Padding
CanvasHeight(o, tileHeight, rows) ==
    tileHeight * rows + (rows + 1) * o.Padding

\* x and y of lines 656-659.
TileX(o, k, tileWidth) ==
    o.Padding + (k % o.TileColumns) * tileWidth + (k % o.TileColumns) * o.Padding
TileYFirstRow(o, k, tileHeight) == o.Padding   \* mutant of TileY: row 0
TileY(o, k, tileHeight) ==
    o.Padding + (k \div o.TileColumns) * tileHeight
              + (k \div o.TileColumns) * o.Padding

\* Lines 623-634.
MTGenerate ==
    /\ pc = "returned"
    /\ IF err # "nil"
       THEN genErr' = "failed to make thumbnails" /\ pc' = "done"
       ELSE IF Len(thumbnails) = 0
            THEN genErr' = "generated 0 images" /\ pc' = "done"
            ELSE genErr' = "nil" /\ pc' = "sheet"
    /\ UNCHANGED <<opts, video, ctxDone, err, probed, planVars, poolVars,
                   thumbnails, sheetVars, colorVars, cliVars>>

\* One iteration of the loop of lines 655-668 for tile si: when the label
\* is wanted and cannot be rendered, the iteration ends at `continue`,
\* before imaging.Paste.
SheetStep ==
    /\ pc = "sheet"
    /\ si < Len(thumbnails)
    /\ \E rendered \in BOOLEAN :
          /\ ~opts.OverlayTimestamps => rendered
          /\ IF rendered
             THEN canvas' = canvas \cup
                     {[i |-> si,
                       x |-> TileX(opts, si, video.W),
                       y |-> TileY(opts, si, video.H),
                       label |-> opts.OverlayTimestamps,
                       timestamp |-> thumbnails[si + 1].Timestamp]}
             ELSE UNCHANGED canvas
    /\ si' = si + 1
    /\ UNCHANGED <<opts, video, ctxDone, pc, err, probed, planVars, poolVars,
                   thumbnails, genErr, sheet, colorVars, cliVars>>

\* Line 669: the canvas is returned.
SheetReturn ==
    /\ pc = "sheet"
    /\ si >= Len(thumbnails)
    /\ sheet' = [kind |-> "image",
                 W |-> CanvasWidth(opts, video.W),
                 H |-> CanvasHeight(opts, video.H,
                                    Rows(Len(thumbnails), opts.TileColumns)),
                 tiles |-> canvas]
    /\ pc' = "done"
    /\ UNCHANGED <<opts, video, ctxDone, err, probed, planVars, poolVars,
                   thumbnails, genErr, si, canvas, colorVars, cliVars>>

(***************************************************************************)
(* ParseColor, lines 427-457.  A string is a sequence of one-character     *)
(* strings.                                                                *)
(***************************************************************************)
Digits == <<"0", "1", "2", "3", "4", "5", "6", "7", "8", "9">>
UpperLetters == <<"A", "B", "C", "D", "E", "F", "G">>
LowerLetters == <<"a", "b", "c", "d", "e", "f", "g">>

Range(f) == {f[x] : x \in DOMAIN f}
IndexOf(f, c) == CHOOSE x \in DOMAIN f : f[x] = c

\* The byte of a character (ASCII), for the characters the inputs use.
Ord(c) ==
    IF c \in Range(Digits) THEN 47 + IndexOf(Digits, c)
    ELSE IF c \in Range(UpperLetters) THEN 64 + IndexOf(UpperLetters, c)
    ELSE IF c \in Range(LowerLetters) THEN 96 + IndexOf(LowerLetters, c)
    ELSE IF c = "#" THEN 35
    ELSE IF c = "+" THEN 43
    ELSE 45   \* "-"

\* Mutant of Lower: no case folding.
LowerKept(b) == b

\* strconv's lower(c) = c | ('x' - 'X'), on the bytes above.
Lower(b) == IF b >= 65 /\ b <= 90 THEN b + 32 ELSE b

\* The digit strconv.ParseUint reads from byte b in base 16, -1 for a
\* syntax error.
HexDigit(b) ==
    LET d == IF 48 <= b /\ b <= 57 THEN b - 48
             ELSE IF 97 <= Lower(b) /\ Lower(b) <= 122 THEN Lower(b) - 97 + 10
             ELSE -1
    IN  IF d >= 16 THEN -1 ELSE d

\* strconv.ParseUint(s, 16, 64): the value, or -1 for a syntax error.
RECURSIVE ParseUint(_)
ParseUint(s) ==
    IF Len(s) = 0 THEN -1
    ELSE LET d == HexDigit(Ord(s[Len(s)]))
             hd == IF Len(s) = 1 THEN 0 ELSE ParseUint(SubSeq(s, 1, Len(s) - 1))
         IN  IF d < 0 \/ hd < 0 THEN -1 ELSE 16 * hd + d

\* r, _ = strconv.ParseInt(s, 16, 64): the value, 0 when ParseInt fails (the
\* error is dropped).
ParseInt(s) ==
    IF Len(s) = 0 THEN 0
    ELSE LET signed == s[1] \in {"+", "-"}
             un == ParseUint(IF signed THEN SubSeq(s, 2, Len(s)) ELSE s)
         IN  IF un < 0 THEN 0
             ELSE IF s[1] = "-" THEN -un ELSE un

\* uint8(v)
Uint8(v) == v % 256

Transparent == <<"t", "r", "a", "n", "s", "p", "a", "r", "e", "n", "t">>

RGBA(r, g, b, a) == [kind |-> "ok", R |-> r, G |-> g, B |-> b, A |-> a]

ParseColor(h) ==
    IF h = Transparent THEN RGBA(0, 0, 0, 0)
    ELSE IF Len(h) = 0 THEN [kind |-> "panic"]   \* hex[0]: index out of range
    ELSE LET body == IF h[1] = "#" THEN SubSeq(h, 2, Len(h)) ELSE h
             ch(j) == Uint8(ParseInt(SubSeq(body, 2 * j - 1, 2 * j)))
         IN  IF Len(body) = 6 THEN RGBA(ch(1), ch(2), ch(3), Uint8(255))
             ELSE IF Len(body) = 8 THEN RGBA(ch(1), ch(2), ch(3), ch(4))
             ELSE [kind |-> "err"]

\* A call of ParseColor.
ParseColorCall ==
    /\ pc = "color"
    /\ colorRes' = ParseColor(hex)
    /\ pc' = "color done"
    /\ UNCHANGED <<opts, video, ctxDone, err, probed, planVars, poolVars,
                   thumbnails, genErr, sheetVars, hex, cliVars>>

(***************************************************************************)
(* Duration.Duration of the command line, src/cmd/thumber/main.go lines    *)
(* 119-163.  Strings are sequences of one-character strings; the inputs    *)
(* hold digits, signs, ":", " ", "x" and the units "h", "m", "s", and      *)
(* numbers short enough for an int.                                        *)
(***************************************************************************)
Minute == 60 * Second
Hour == 60 * Minute

IsDigit(c) == c \in Range(Digits)

\* The value of a string of decimal digits, read as strconv does:
\* n = n*10 + digit.
RECURSIVE Decimal(_)
Decimal(s) ==
    IF s = <<>> THEN 0
    ELSE 10 * Decimal(SubSeq(s, 1, Len(s) - 1)) + (IndexOf(Digits, s[Len(s)]) - 1)

\* strconv.Atoi: the value and whether there was no error; a syntax error
\* returns the value 0.
Atoi(s) ==
    LET signed == s # <<>> /\ s[1] \in {"+", "-"}
        body == IF signed THEN Tail(s) ELSE s
    IN  IF body = <<>> \/ \E j \in 1..Len(body) : ~IsDigit(body[j])
        THEN [v |-> 0, ok |-> FALSE]
        ELSE [v |-> IF s[1] = "-" THEN -Decimal(body) ELSE Decimal(body),
              ok |-> TRUE]

\* strings.TrimSpace
RECURSIVE TrimLeft(_)
TrimLeft(s) == IF s # <<>> /\ s[1] = " " THEN TrimLeft(Tail(s)) ELSE s
RECURSIVE TrimRight(_)
TrimRight(s) ==
    IF s # <<>> /\ s[Len(s)] = " "
    THEN TrimRight(SubSeq(s, 1, Len(s) - 1))
    ELSE s
TrimSpace(s) == TrimRight(TrimLeft(s))

\* strings.Split(s, ":")
RECURSIVE Split(_)
Split(s) ==
    IF \A j \in 1..Len(s) : s[j] # ":" THEN <<s>>
    ELSE LET c == CHOOSE j \in 1..Len(s) :
                     s[j] = ":" /\ \A l \in 1..(j - 1) : s[l] # ":"
         IN  <<SubSeq(s, 1, c - 1)>> \o Split(SubSeq(s, c + 1, Len(s)))

\* Mutant of reverse: the parts are left in the order of the string.
reverseSkipped(s) == s

\* reverse(s), lines 158-163.
reverse(s) == [j \in 1..Len(s) |-> s[Len(s) + 1 - j]]

\* The number of leading characters of s that are (digit = TRUE) or are
\* not (digit = FALSE) digits.
RECURSIVE LeadLen(_, _)
LeadLen(s, digit) ==
    IF s = <<>> \/ IsDigit(s[1]) # digit THEN 0
    ELSE 1 + LeadLen(Tail(s), digit)

\* time.ParseDuration's unit table, for the units of the inputs.
UnitTicks(u) ==
    IF u = <<"h">> THEN Hour
    ELSE IF u = <<"m">> THEN Minute
    ELSE IF u = <<"s">> THEN Second
    ELSE -1

\* time.ParseDuration's loop over number-unit groups: the ticks, or -1 for
\* an error (no digit where a number must start, missing or unknown unit).
RECURSIVE ParseGroups(_)
ParseGroups(s) ==
    IF s = <<>> THEN 0
    ELSE LET nd == LeadLen(s, TRUE)
             rest == SubSeq(s, nd + 1, Len(s))
             nu == LeadLen(rest, FALSE)
             unit == UnitTicks(SubSeq(rest, 1, nu))
             more == ParseGroups(SubSeq(rest, nu + 1, Len(rest)))
         IN  IF nd = 0 \/ nu = 0 \/ unit < 0 \/ more < 0 THEN -1
             ELSE Decimal(SubSeq(s, 1, nd)) * unit + more

\* time.ParseDuration(s): a sign, then "0" or number-unit groups.
ParseDuration(s) ==
    LET signed == s # <<>> /\ s[1] \in {"+", "-"}
        body == IF signed THEN Tail(s) ELSE s
        g == ParseGroups(body)
    IN  IF body = <<"0">> THEN [d |-> 0, ok |-> TRUE]
        ELSE IF body = <<>> \/ g < 0 THEN [d |-> 0, ok |-> FALSE]
        ELSE [d |-> IF s[1] = "-" THEN -g ELSE g, ok |-> TRUE]

\* fmt.Errorf("invalid duration: %q as <unit>", segment), with no duration.
InvalidDuration(segment, unit) ==
    [kind |-> "err", d |-> 0, segment |-> segment, as |-> unit]

\* Duration.Duration, lines 119-156.
Duration(d) ==
    IF d = <<>> THEN [kind |-> "ok", d |-> 0]
    ELSE IF ParseDuration(d).ok THEN [kind |-> "ok", d |-> ParseDuration(d).d]
    ELSE LET parts == reverse(Split(TrimSpace(d)))
             hour == IF Len(parts) > 2 THEN Atoi(parts[3])
                     ELSE [v |-> 0, ok |-> TRUE]
             minute == IF Len(parts) > 1 THEN Atoi(parts[2])
                       ELSE [v |-> 0, ok |-> TRUE]
             second == Atoi(parts[1])
         IN  IF ~hour.ok THEN InvalidDuration(parts[1], "hour")
             ELSE IF ~minute.ok THEN InvalidDuration(parts[2], "minute")
             ELSE IF ~second.ok
                  THEN InvalidDuration(parts[second.v + 1], "second")
                  ELSE [kind |-> "ok",
                        d |-> hour.v * Hour + minute.v * Minute
                                  + second.v * Second]

\* A call of Duration.Duration.
DurationCall ==
    /\ pc = "dur"
    /\ durRes' = Duration(dur)
    /\ pc' = "dur done"
    /\ UNCHANGED <<opts, video, ctxDone, err, probed, planVars, poolVars,
                   thumbnails, genErr, sheetVars, colorVars, dur, args, file,
                   runErr>>

(***************************************************************************)
(* cliArgs.Run and cliArgs.OutputFile, src/cmd/thumber/main.go lines       *)
(* 58-115.                                                                 *)
(***************************************************************************)
\* Run returns the error e.
Exit(e) ==
    /\ runErr' = e
    /\ pc' = "exit"

\* Lines 59-87: the options are parsed and the ThumbOptions built (the
\* command line has no tile count).  ParseColor panics on an empty string.
RunParse ==
    /\ pc = "run"
    /\ LET from == Duration(args.From)
           to == Duration(args.To)
           color == ParseColor(args.OverlayBackground)
       IN  IF from.kind = "err"
           THEN Exit("invalid from") /\ UNCHANGED opts
           ELSE IF to.kind = "err"
           THEN Exit("invalid to") /\ UNCHANGED opts
           ELSE IF color.kind = "panic"
           THEN pc' = "panic" /\ UNCHANGED <<opts, runErr>>
           ELSE IF color.kind = "err"
           THEN Exit("invalid overlay background color") /\ UNCHANGED opts
           ELSE /\ opts' = [From |-> from.d,
                            To |-> to.d,
                            TileCount |-> 0,
                            Interval |-> Second * args.IntervalSeconds,
                            TileColumns |-> args.Columns,
                            Padding |-> args.Padding,
                            OverlayTimestamps |-> args.OverlayTimestamps]
                /\ pc' = "start"
                /\ UNCHANGED runErr
    /\ UNCHANGED <<video, ctxDone, err, probed, planVars, poolVars, thumbnails,
                   genErr, sheetVars, colorVars, dur, durRes, args, file>>

\* Lines 88-91: Generate has returned.
RunGenerated ==
    /\ pc = "done"
    /\ args # NoArgs
    /\ IF genErr # "nil"
       THEN Exit("failed to generate thumbnails")
       ELSE pc' = "open" /\ UNCHANGED runErr
    /\ UNCHANGED <<opts, video, ctxDone, err, probed, planVars, poolVars,
                   thumbnails, genErr, sheetVars, colorVars, dur, durRes, args,
                   file>>

\* Lines 93-96 and OutputFile: "-" is os.Stdout; else os.Create makes the
\* file (empty), or fails.
RunOutputFile ==
    /\ pc = "open"
    /\ IF args.OutputPath = "-"
       THEN pc' = "encode" /\ UNCHANGED <<file, runErr>>
       ELSE \E created \in BOOLEAN :
               IF created
               THEN file' = "created" /\ pc' = "encode" /\ UNCHANGED runErr
               ELSE Exit("failed to open file for writing") /\ UNCHANGED file
    /\ UNCHANGED <<opts, video, ctxDone, err, probed, planVars, poolVars,
                   thumbnails, genErr, sheetVars, colorVars, dur, durRes, args>>

\* Lines 98-101: jpeg.Encode writes the image to the writer; it fails when
\* the image is too large to encode (before it writes anything) or when a
\* write fails (after some may have succeeded).
RunEncode ==
    /\ pc = "encode"
    /\ \E encoded \in BOOLEAN, wrote \in BOOLEAN :
          /\ encoded => wrote
          /\ file' = IF wrote /\ args.OutputPath # "-" THEN "written" ELSE file
          /\ Exit(IF encoded THEN "nil" ELSE "failed to encode as jpeg")
    /\ UNCHANGED <<opts, video, ctxDone, err, probed, planVars, poolVars,
                   thumbnails, genErr, sheetVars, colorVars, dur, durRes, args>>

(***************************************************************************)
(* Specifications.                                                         *)
(***************************************************************************)
OptionSet(froms, tos, counts, intervals, overlays) ==
    [From : froms, To : tos, TileCount : counts, Interval : intervals,
     TileColumns : {2}, Padding : {1}, OverlayTimestamps : overlays]

VideoSet(kinds, millis) == [kind : kinds, milli : millis, W : {3}, H : {2}]

\* The state at a call: of Generate (p = "start"), of ParseColor on h, of
\* Duration.Duration on d, of cliArgs.Run with a, or of makeContactSheet on
\* the thumbnails ths.
InitWith(o, v, p, h, d, a, ths) ==
    /\ opts = o
    /\ video = v
    /\ ctxDone = FALSE
    /\ pc = p
    /\ err = "nil"
    /\ probed = 0
    /\ start = 0
    /\ duration = 0
    /\ totalTiles = 0
    /\ interval = 0
    /\ i = 0
    /\ workers = 0
    /\ idle = 0
    /\ running = <<>>
    /\ calls = <<>>
    /\ procs = {}
    /\ results = <<>>
    /\ errs = <<>>
    /\ thumbnails = ths
    /\ genErr = "nil"
    /\ si = 0
    /\ canvas = {}
    /\ sheet = NilImage
    /\ hex = h
    /\ colorRes = "none"
    /\ dur = d
    /\ durRes = [kind |-> "none"]
    /\ args = a
    /\ file = "absent"
    /\ runErr = "nil"

InitState(o, v, p, h) == InitWith(o, v, p, h, <<>>, NoArgs, <<>>)

InitCall(o, v) == InitState(o, v, "start", <<>>)

\* The tile count a call plans (0 when it fails before planning one).
Planned(o, v) ==
    LET w == Window(o, readDuration(v))
    IN  IF Validate(o) # "nil" \/ v.kind # "ok" \/ IntervalTooLarge(o, w)
        THEN 0
        ELSE TotalTiles(o, w)

\* Calls over a wide range of options, with few tiles.
PlanOptions ==
    OptionSet({0, 1, Second, 3 * Second},
              {0, 1, 3 * Second, 3 * Second + 1, 125 * Second},
              (-1)..PlanTiles,
              {0, 1, 2, Second + 1, 60 * Second, -Second},
              {FALSE})
PlanVideos ==
    VideoSet({"ok"}, {3000, 3500, 125500})
        \cup VideoSet({"missing", "fail"}, {0})

Init ==
    \E o \in PlanOptions, v \in PlanVideos :
        /\ Planned(o, v) <= PlanTiles
        /\ InitCall(o, v)

\* Calls with up to MaxTiles tiles, over a narrow range of options.
PoolOptions ==
    OptionSet({Second}, {7 * Second}, 1..MaxTiles, {0}, BOOLEAN)
PoolVideos == VideoSet({"ok"}, {9500})

InitPool ==
    \E o \in PoolOptions, v \in PoolVideos : InitCall(o, v)

Next ==
    \/ MTValidate
    \/ MTCheckInstalled
    \/ MTReadDuration
    \/ MTPlan
    \/ MTGoSpawn
    \/ MTGoSend
    \/ MTLoopEnd
    \/ MTTaskDone
    \/ MTWait
    \/ Cancel
    \/ MTGenerate
    \/ SheetStep
    \/ SheetReturn

Spec == Init /\ [][Next]_vars

SpecPool == InitPool /\ [][Next]_vars

\* The steps of the program: every step but the caller's cancellation.
Progress ==
    \/ MTValidate \/ MTCheckInstalled \/ MTReadDuration \/ MTPlan
    \/ MTGoSpawn \/ MTGoSend \/ MTLoopEnd \/ MTTaskDone \/ MTWait
    \/ MTGenerate \/ SheetStep \/ SheetReturn

\* The Go scheduler runs a goroutine that can take a step, and every
\* started ffmpeg eventually ends: some enabled step of the program is
\* eventually taken.
\* The calls of InitPool that ask for no labels.
InitPoolFair ==
    \E o \in OptionSet({Second}, {7 * Second}, 1..MaxTiles, {0}, {FALSE}),
       v \in PoolVideos : InitCall(o, v)

SpecPoolFair == InitPoolFair /\ [][Next]_vars /\ WF_vars(Progress)

\* Calls of ParseColor: an optional "#", up to MaxChannels groups of two
\* characters and an optional odd character; and the token "transparent".
ChannelTokens ==
    {<<"1", "0">>, <<"1", "1">>, <<"1", "2">>, <<"c", "c">>, <<"F", "0">>,
     <<"f", "0">>, <<"g", "1">>, <<"-", "1">>}

RECURSIVE Groups(_)
Groups(n) ==
    IF n = 0 THEN {<<>>}
    ELSE {g \o t : g \in Groups(n - 1), t \in ChannelTokens}

ColorStrings ==
    {p \o g \o x : p \in {<<>>, <<"#">>},
                   g \in UNION {Groups(n) : n \in 0..MaxChannels},
                   x \in {<<>>, <<"1">>}}
        \cup {Transparent, <<"#">> \o Transparent}

InitColor ==
    \E h \in ColorStrings :
        InitState(CHOOSE o \in PoolOptions : TRUE,
                  CHOOSE v \in PoolVideos : TRUE, "color", h)

NextColor == ParseColorCall

SpecColor == InitColor /\ [][NextColor]_vars

\* Calls of makeContactSheet: 1..SheetTiles equally sized tiles, on grids
\* of 1..MaxColumns columns with paddings 0..MaxPadding.
SheetOptions ==
    [From : {0}, To : {0}, TileCount : {0}, Interval : {0},
     TileColumns : 1..MaxColumns, Padding : 0..MaxPadding,
     OverlayTimestamps : BOOLEAN]
SheetVideos == [kind : {"ok"}, milli : {0}, W : {1, 3}, H : {2}]
SheetThumbs(n) == [j \in 1..n |-> [Timestamp |-> j - 1, Image |-> "frame"]]

InitSheet ==
    \E o \in SheetOptions, v \in SheetVideos, n \in 1..SheetTiles :
        InitWith(o, v, "sheet", <<>>, <<>>, NoArgs, SheetThumbs(n))

NextSheet ==
    \/ SheetStep
    \/ SheetReturn

SpecSheet == InitSheet /\ [][NextSheet]_vars

\* Calls of Duration.Duration: 1..MaxParts segments joined by ":", and
\* strings with blanks around or with units.
SegmentTokens ==
    {<<"9", "0">>, <<"1">>, <<"3", "0">>, <<"0", "1">>, <<"0", "2">>,
     <<"0", "3">>, <<"x">>, <<>>, <<"-", "5">>}

RECURSIVE Segments(_)
Segments(n) ==
    IF n = 1 THEN SegmentTokens
    ELSE {g \o <<":">> \o t : g \in Segments(n - 1), t \in SegmentTokens}

DurationStrings ==
    UNION {Segments(n) : n \in 1..MaxParts}
        \cup {<<" ", "9", "0", " ">>, <<"9", "0", "s">>, <<"1", "h">>,
              <<"1", "m", "3", "0", "s">>, <<"0">>, <<"3", "0", "x">>}

InitDur ==
    \E d \in DurationStrings :
        InitWith(CHOOSE o \in PoolOptions : TRUE,
                 CHOOSE v \in PoolVideos : TRUE, "dur", <<>>, d, NoArgs, <<>>)

NextDur == DurationCall

SpecDur == InitDur /\ [][NextDur]_vars

\* Runs of the command line.  opts starts as the zero ThumbOptions.
ZeroOptions ==
    [From |-> 0, To |-> 0, TileCount |-> 0, Interval |-> 0, TileColumns |-> 0,
     Padding |-> 0, OverlayTimestamps |-> FALSE]

CliArgs ==
    [kind : {"cli"},
     From : {<<"1">>, <<"5">>, <<"x">>},
     To : {<<>>, <<"3">>, <<"0", ":", "0", "3">>, <<"y", ":", "3">>},
     IntervalSeconds : {1, 60},
     Columns : {3},
     Padding : {0},
     OverlayTimestamps : {FALSE},
     OverlayBackground : {Transparent, <<"#", "1", "0", "1", "1", "1", "2">>,
                          <<"#", "1", "0">>},
     OutputPath : {"", "-"}]

CliVideos == VideoSet({"ok"}, {3000}) \cup VideoSet({"missing", "fail"}, {0})

InitCLI ==
    \E a \in CliArgs, v \in CliVideos :
        InitWith(ZeroOptions, v, "run", <<>>, <<>>, a, <<>>)

NextCLI ==
    \/ RunParse
    \/ MTValidate
    \/ MTCheckInstalled
    \/ MTReadDuration
    \/ MTPlan
    \/ MTGoSpawn
    \/ MTGoSend
    \/ MTLoopEnd
    \/ MTTaskDone
    \/ MTWait
    \/ MTGenerate
    \/ SheetStep
    \/ SheetReturn
    \/ RunGenerated
    \/ RunOutputFile
    \/ RunEncode

SpecCLI == InitCLI /\ [][NextCLI]_vars

(***************************************************************************)
(* Properties.                                                             *)
(***************************************************************************)
\* MakeThumbnails has returned.
Returned == pc \in {"returned", "sheet", "done"}

\* The window of the call's options, from the options and the probe alone.
CallWindow ==
    (IF opts.To # 0 THEN opts.To ELSE Second * (video.milli \div 1000)) - opts.From

\* The effective tile count of the call's options.
CallTiles ==
    IF opts.TileCount # 0 THEN opts.TileCount
    ELSE IF opts.Interval > 0 /\ CallWindow >= 0 THEN CallWindow \div opts.Interval
    ELSE 0

\* C1: when every extraction succeeds, MakeThumbnails returns exactly
\* tileCount thumbnails and the i-th has timestamp start + i*spacing,
\* whatever the order in which the extractions completed.
C1_SampleOrder ==
    (Returned /\ procs # {} /\ errs = <<>>) =>
        /\ err = "nil"
        /\ Len(thumbnails) = CallTiles
        /\ \A k \in 0..(CallTiles - 1) :
              /\ thumbnails[k + 1].Image = "frame"
              /\ thumbnails[k + 1].Timestamp
                     = opts.From + k * (CallWindow \div CallTiles)

\* C1 witness: a successful return whose extractions completed out of
\* sample order.
C1_Witness ==
    /\ pc = "returned"
    /\ err = "nil"
    /\ Len(results) >= 3
    /\ results[1].Index > results[2].Index
    /\ results[2].Index < results[3].Index

\* C2: once any extraction has failed, MakeThumbnails returns an error and
\* no thumbnail, and Generate returns an error and no contact sheet.
C2_AllOrNothing ==
    (Returned /\ errs # <<>>) =>
        /\ err # "nil"
        /\ thumbnails = <<>>
        /\ pc # "sheet"
        /\ sheet.kind = "nil"
        /\ pc = "done" => genErr # "nil"

\* C2 witness: Generate has ended after exactly one of several extractions
\* failed.
C2_Witness ==
    /\ pc = "done"
    /\ Len(errs) = 1
    /\ Len(results) >= 3
    /\ genErr # "nil"

\* C3: at every moment at most 4 extractions are in flight.
C3_Ceiling == Cardinality(DOMAIN running) <= 4

\* C3 witness: 4 ffmpeg processes in flight while samples remain to be
\* submitted.
C3_Witness ==
    /\ Cardinality({k \in DOMAIN running : running[k] = "proc"}) = 4
    /\ i < totalTiles

\* C4 (as claimed): once ctx is cancelled no further ffmpeg is started, and a
\* call during which ctx was cancelled returns an error that
\* errors.Is(err, context.Canceled) tells from an extraction failure.
C4_Claim ==
    (Returned /\ ctxDone) => IsCancelled(err, errs)

\* The first half of C4 alone: no ffmpeg is started after the cancellation.
C4_NoStartAfterCancel == [][ctxDone => procs' = procs]_vars

\* C5 (as claimed): for window > 0 and a positive effective tile count the
\* plan has that many timestamps, the i-th is start + i*(window/tileCount),
\* and they are strictly increasing.
PlanMade ==
    \/ pc \in {"submit", "send", "wait"}
    \/ Returned /\ err \in {"nil", "pool"}
PlanFailed ==
    \/ pc = "panic"
    \/ Returned /\ err = "interval is larger than available video duration"
C5_Pre == video.kind = "ok" /\ Validate(opts) = "nil" /\ CallWindow > 0 /\ CallTiles > 0
C5_Plan ==
    /\ ~PlanFailed
    /\ PlanMade =>
          /\ totalTiles = CallTiles
          /\ DOMAIN calls = 1..CallTiles
          /\ start = opts.From
          /\ interval = CallWindow \div CallTiles
          /\ \A j \in 1..Len(results) :
                results[j].Image = "frame" =>
                   results[j].Timestamp
                      = opts.From + results[j].Index * (CallWindow \div CallTiles)
          /\ pc = "wait" /\ DOMAIN running = {} => Len(results) = CallTiles
StrictlyIncreasing ==
    \A k \in 1..(totalTiles - 1) :
        Timestamp(start, k - 1, interval) < Timestamp(start, k, interval)
C6_Claim ==
    (opts.TileCount = 0 /\ opts.Interval = 0) => pc # "panic"

\* C7 (as claimed): a window <= 0 makes the call fail without extracting a
\* frame (stated here for options without negative fields).
C7_Claim ==
    (video.kind = "ok" /\ CallWindow <= 0 /\ opts.TileCount >= 0
                       /\ opts.Interval >= 0) =>
        /\ procs = {}
        /\ Returned => err # "nil"

\* C10 (as claimed): every input tile is on the returned sheet, whether or
\* not its label could be rendered.
C10_Claim ==
    sheet.kind = "image" =>
        \A k \in 0..(Len(thumbnails) - 1) : \E t \in sheet.tiles : t.i = k

\* The characters of a colour string after its optional "#".
ColorBody(h) == IF Len(h) > 0 /\ h[1] = "#" THEN SubSeq(h, 2, Len(h)) ELSE h

\* The value of a hexadecimal digit, -1 for any other character.
HexChars == <<"0", "1", "2", "3", "4", "5", "6", "7", "8", "9",
              "a", "b", "c", "d", "e", "f">>
UpperHexChars == <<"0", "1", "2", "3", "4", "5", "6", "7", "8", "9",
                   "A", "B", "C", "D", "E", "F">>
HexValue(c) ==
    IF c \in Range(HexChars) THEN IndexOf(HexChars, c) - 1
    ELSE IF c \in Range(UpperHexChars) THEN IndexOf(UpperHexChars, c) - 1
    ELSE -1

\* 6 or 8 hexadecimal digits after an optional "#".
ValidHex(h) ==
    /\ Len(ColorBody(h)) \in {6, 8}
    /\ \A j \in 1..Len(ColorBody(h)) : HexValue(ColorBody(h)[j]) >= 0

\* C8 (as claimed): for every input that is neither "transparent" nor 6 or
\* 8 hexadecimal digits with an optional "#", ParseColor returns an error
\* and no colour.
C8_Claim ==
    (pc = "color done" /\ hex # Transparent /\ ~ValidHex(hex)) =>
        colorRes.kind = "err"

\* C9: "transparent" gives all-zero RGBA, RRGGBB gives {RR,GG,BB,255} and
\* RRGGBBAA gives {RR,GG,BB,AA}, with or without "#" and in either case.
C9_ExactChannels ==
    (pc = "color done" /\ (hex = Transparent \/ ValidHex(hex))) =>
        LET b == ColorBody(hex)
            byte(j) == 16 * HexValue(b[2 * j - 1]) + HexValue(b[2 * j])
        IN  /\ colorRes.kind = "ok"
            /\ hex = Transparent =>
                  <<colorRes.R, colorRes.G, colorRes.B, colorRes.A>> = <<0, 0, 0, 0>>
            /\ hex # Transparent =>
                  /\ <<colorRes.R, colorRes.G, colorRes.B>>
                        = <<byte(1), byte(2), byte(3)>>
                  /\ colorRes.A = IF Len(b) = 6 THEN 255 ELSE byte(4)

\* C9 witness: "#101112cc" has been parsed to {16,17,18,204}.
C9_Witness ==
    /\ pc = "color done"
    /\ hex = <<"#", "1", "0", "1", "1", "1", "2", "c", "c">>
    /\ colorRes = RGBA(16, 17, 18, 204)

(***************************************************************************)
(* The compositor's layout.                                                *)
(***************************************************************************)
\* The least number of rows of `columns` tiles that hold `count` tiles.
CeilRows(count, columns) ==
    CHOOSE r \in 0..count : r * columns >= count /\ (r - 1) * columns < count

\* C11: makeContactSheet lays the tiles out on a grid of ceil(count/columns)
\* rows: the canvas is columns*tileWidth + (columns+1)*padding wide and
\* rows*tileHeight + (rows+1)*padding high, and tile i is pasted at
\* x = padding + (i mod columns)*(tileWidth+padding),
\* y = padding + (i div columns)*(tileHeight+padding); every tile is pasted
\* when no label is asked for.
C11_Layout ==
    LET c == opts.TileColumns
        p == opts.Padding
        n == Len(thumbnails)
        r == CeilRows(n, c)
    IN  /\ \A t \in canvas :
              /\ t.x = p + (t.i % c) * (video.W + p)
              /\ t.y = p + (t.i \div c) * (video.H + p)
        /\ sheet.kind = "image" =>
              /\ sheet.W = c * video.W + (c + 1) * p
              /\ sheet.H = r * video.H + (r + 1) * p
              /\ ~opts.OverlayTimestamps =>
                    {t.i : t \in sheet.tiles} = 0..(n - 1)

\* Seven tiles on three columns: three rows, tile 4 in row 1, column 1.
C11_Witness ==
    /\ sheet.kind = "image"
    /\ Len(thumbnails) = 7 /\ opts.TileColumns = 3 /\ opts.Padding = 2
    /\ sheet.H = 3 * video.H + 4 * opts.Padding
    /\ \E t \in sheet.tiles :
          /\ t.i = 4
          /\ t.x = opts.Padding + (video.W + opts.Padding)
          /\ t.y = opts.Padding + (video.H + opts.Padding)

\* C18: the rectangles of distinct pasted tiles are disjoint, and each lies
\* inside the canvas, for equally sized tiles, columns >= 1, padding >= 0.
C18_Disjoint ==
    sheet.kind = "image" =>
        /\ \A t \in sheet.tiles :
              /\ 0 <= t.x /\ t.x + video.W <= sheet.W
              /\ 0 <= t.y /\ t.y + video.H <= sheet.H
        /\ \A t, u \in sheet.tiles :
              t.i # u.i =>
                  \/ t.x + video.W <= u.x \/ u.x + video.W <= t.x
                  \/ t.y + video.H <= u.y \/ u.y + video.H <= t.y

\* A full grid of more than one row and column, without padding.
C18_Witness ==
    /\ sheet.kind = "image"
    /\ opts.Padding = 0 /\ opts.TileColumns = 2
    /\ Cardinality(sheet.tiles) = 5

(***************************************************************************)
(* The command line's durations.                                           *)
(***************************************************************************)
ColonAt(s) == {j \in 1..Len(s) : s[j] = ":"}
FieldCount(s) == Cardinality(ColonAt(s)) + 1

\* The k-th ":"-separated field of s, counted from the right.
FieldFromRight(s, k) ==
    LET cs == ColonAt(s) \cup {0, Len(s) + 1}
        hi == CHOOSE c \in cs : Cardinality({x \in cs : x > c}) = k - 1
        lo == CHOOSE c \in cs : Cardinality({x \in cs : x > c}) = k
    IN  SubSeq(s, lo + 1, hi - 1)

IsNumber(s) == s # <<>> /\ \A j \in 1..Len(s) : IsDigit(s[j])
IsSignedNumber(s) ==
    IsNumber(s) \/ (s # <<>> /\ s[1] \in {"+", "-"} /\ IsNumber(Tail(s)))

\* The seconds of a string of up to three numeric fields.
FieldSeconds(s) ==
    LET f(k) == IF k <= FieldCount(s) THEN Decimal(FieldFromRight(s, k)) ELSE 0
    IN  f(3) * 3600 + f(2) * 60 + f(1)

\* C12: Duration.Duration reads "ss", "mm:ss" and "hh:mm:ss" from the right:
\* "90" and "1:30" are 90s, "01:02:03" is 1h2m3s, the empty string is 0.
C12_ColonDuration ==
    pc = "dur done" =>
        /\ dur = <<>> => durRes = [kind |-> "ok", d |-> 0]
        /\ dur = <<"9", "0">> => durRes = [kind |-> "ok", d |-> 90 * Second]
        /\ dur = <<"1", ":", "3", "0">> =>
              durRes = [kind |-> "ok", d |-> 90 * Second]
        /\ dur = <<"0", "1", ":", "0", "2", ":", "0", "3">> =>
              durRes = [kind |-> "ok", d |-> 3723 * Second]
        /\ (FieldCount(dur) <= 3
               /\ \A k \in 1..FieldCount(dur) : IsNumber(FieldFromRight(dur, k)))
              => durRes = [kind |-> "ok", d |-> FieldSeconds(dur) * Second]

C12_Witness ==
    /\ pc = "dur done"
    /\ dur = <<"0", "1", ":", "0", "2", ":", "0", "3">>
    /\ durRes.d = Hour + 2 * Minute + 3 * Second

\* The position a field's unit name stands for.
UnitPosition(u) == IF u = "hour" THEN 3 ELSE IF u = "minute" THEN 2 ELSE 1

\* C13: a non-empty string of up to three fields, one of them non-numeric, gives an
\* invalid-duration error and no duration, and the error carries the
\* offending field of the position it names.
C13_Claim ==
    (/\ pc = "dur done"
     /\ dur # <<>>
     /\ \A j \in 1..Len(dur) : IsDigit(dur[j]) \/ dur[j] \in {":", "x", "-"}
     /\ FieldCount(dur) <= 3
     /\ \E k \in 1..FieldCount(dur) : ~IsSignedNumber(FieldFromRight(dur, k)))
        => /\ durRes.kind = "err"
           /\ durRes.d = 0
           /\ durRes.segment = FieldFromRight(dur, UnitPosition(durRes.as))
           /\ ~IsSignedNumber(durRes.segment)

(***************************************************************************)
(* The probed duration.                                                    *)
(***************************************************************************)
\* C14: readDuration returns the duration ffprobe printed with its fraction
\* of a second: the value the planner receives is video.milli thousandths
\* of a second.
C14_Claim == pc = "plan" => duration * 1000 = video.milli * Second

\* C17 (as claimed): a call that ends with a validation error (Validate's
\* or "interval is larger than available video duration") has started no
\* ffprobe and no ffmpeg; here for calls with To set, whose window needs no
\* probe.
C17_Claim ==
    (/\ Returned
     /\ opts.To # 0
     /\ err \in {"invalid options",
                 "interval is larger than available video duration"})
        => probed = 0 /\ procs = {}

(***************************************************************************)
(* The pool's scheduling.                                                  *)
(***************************************************************************)
\* C16: extractThumbnail is called at most once for a sample, and when the
\* pool has been waited for it has been called exactly once for every
\* sample, failures among them or not; unless the caller cancelled, an
\* ffmpeg was started for every sample.
C16_OnceEach ==
    /\ \A k \in DOMAIN calls : calls[k] <= 1
    /\ (Returned /\ err \in {"nil", "pool"}) =>
          /\ \A k \in 1..totalTiles : calls[k] = 1
          /\ Len(results) = totalTiles
          /\ ~ctxDone => procs = 0..(totalTiles - 1)

\* C16 witness: the first extraction to end failed, and all of more
\* samples than the ceiling were started, the last to end with a frame.
C16_Witness ==
    /\ pc = "returned"
    /\ ~ctxDone
    /\ totalTiles = 5
    /\ results[1].Image = "nil"
    /\ results[5].Image = "frame"
    /\ procs = 0..4

\* C19: MakeThumbnails never deadlocks and always returns: whatever the
\* number of samples and whichever extractions fail, when every started
\* extraction ends the call returns, and if it got to the pool it has
\* submitted every sample.
C19_Returns == <>(Returned /\ (err \in {"nil", "pool"} => i = totalTiles))

\* C19 witness: a call with more samples than the ceiling has returned
\* after successes and failures.
C19_Witness ==
    /\ pc = "returned"
    /\ totalTiles > MaxGoroutines
    /\ i = totalTiles
    /\ Len(errs) = 2
    /\ workers = MaxGoroutines

\* C20: for window > 0 and a positive effective tile count, every frame is
\* requested at a timestamp t with start <= t < end.
C20_InWindow ==
    C5_Pre =>
        /\ \A j \in 1..Len(results) :
              results[j].Image = "frame" =>
                  /\ opts.From <= results[j].Timestamp
                  /\ results[j].Timestamp < opts.From + CallWindow
        /\ \A j \in 1..Len(thumbnails) :
              /\ opts.From <= thumbnails[j].Timestamp
              /\ thumbnails[j].Timestamp < opts.From + CallWindow

\* C20 witness: a window that the tile count divides, both frames returned.
C20_Witness ==
    /\ C5_Pre
    /\ pc = "returned"
    /\ Len(thumbnails) = 2
    /\ CallWindow = 2 * Second
    /\ thumbnails[2].Timestamp = opts.From + Second
    /\ opts.To # 0

(***************************************************************************)
(* The command line run.                                                   *)
(***************************************************************************)
\* C15: when cliArgs.Run returns an error, the output file has been neither
\* created nor written.
C15_Claim == (pc = "exit" /\ runErr # "nil") => file = "absent"

====
